---- MODULE Spec2Model ----
(***************************************************************************)
(* StockTrackerPlus (src/main.py): a Streamlit script that is re-executed  *)
(* from top to bottom on every user interaction.  The only state kept      *)
(* between two executions is st.session_state.selected_stocks and the      *)
(* text of the search box; everything else is rendered anew by each run.   *)
(*                                                                         *)
(* Text is modelled as a sequence of tokens (one-character strings, with   *)
(* the separator " - " and a few fixed words kept as single tokens).       *)
(* Numbers are modelled by their decimal digits, so that values as large   *)
(* as a market capitalisation are formatted digit by digit.                *)
(***************************************************************************)
EXTENDS Integers, Sequences, FiniteSets, TLC

VARIABLES
    selected_stocks,   \* st.session_state.selected_stocks: list of "SYM - Name" labels
    search_query,      \* the text held by the "stock_search" text input
    last_action,       \* the interaction that triggered the last run of the script
    crashed,           \* the last run ended with an uncaught exception
    lookup_request,    \* the queries sent to the lookup service in the last run (none or one)
    messages,          \* the st.success / st.warning / st.info messages of the last run
    add_button,        \* the last run rendered the "Add Stock" button
    compare_button,    \* the last run rendered the "Compare Selected Stocks" button
    add_label,         \* the labels handed to the add branch in the last run (none or one)
    compared,          \* the last run executed the Compare branch
    symbols,           \* the symbols requested by the Compare branch of the last run
    fetch_log,         \* the fetch attempts of the last Compare: <<symbol, ok>>, in order
    stock_data,        \* the dict returned by get_stock_data in the last Compare
    valid_stock_data,  \* the dict handed to the table and the chart
    table,             \* the DataFrame handed to st.table (NoTable if none was)
    chart              \* the figure handed to st.plotly_chart (NoChart if none was)

vars == <<selected_stocks, search_query, last_action, crashed, lookup_request,
          messages, add_button, compare_button, add_label,
          compared, symbols, fetch_log, stock_data, valid_stock_data, table, chart>>

\* Cap on the length of the selection: the list itself has no limit.
MaxSel == 3

(***************************************************************************)
(* Text helpers                                                            *)
(***************************************************************************)
Range(s) == {s[i] : i \in DOMAIN s}

MinOf(S) == CHOOSE i \in S : \A j \in S : i <= j

\* The separator written between symbol and name by the selectbox options.
Sep == " - "

\* str.strip(): leading and trailing blanks removed.
RECURSIVE Strip(_)
Strip(t) ==
    IF t = <<>> THEN t
    ELSE IF Head(t) = " " THEN Strip(Tail(t))
    ELSE IF t[Len(t)] = " " THEN Strip(SubSeq(t, 1, Len(t) - 1))
    ELSE t

\* text.split(' - ')[0]: the text before the first separator (all of it if none).
SplitFirst(t) ==
    LET idx == {i \in DOMAIN t : t[i] = Sep}
    IN  IF idx = {} THEN t ELSE SubSeq(t, 1, MinOf(idx) - 1)

\* f"{result['symbol']} - {result['name']}"
OptionLabel(result) == result.symbol \o <<Sep>> \o result.name

(***************************************************************************)
(* Python dict: insertion-ordered, a key assigned again keeps its place.   *)
(***************************************************************************)
DictKeys(d) == [i \in DOMAIN d |-> d[i][1]]

DictHas(d, k) == \E i \in DOMAIN d : d[i][1] = k

DictSet(d, k, v) ==
    IF DictHas(d, k)
    THEN [i \in DOMAIN d |-> IF d[i][1] = k THEN <<k, v>> ELSE d[i]]
    ELSE Append(d, <<k, v>>)

(***************************************************************************)
(* search_stocks                                                           *)
(***************************************************************************)
\* rows[:10]
MaxResults == 10

\* The lookup service answers with a page, or requests.get raises.
\* A page: [table |-> BOOLEAN, rows |-> the <tr> rows, each a sequence of <td> texts].
LookupError == [error |-> TRUE]

Page(has_table, rows) == [error |-> FALSE, table |-> has_table, rows |-> rows]

RECURSIVE ParseRows(_)
ParseRows(rows) ==
    IF rows = <<>> THEN <<>>
    ELSE LET cols == Head(rows)
         IN  IF Len(cols) >= 2
             THEN <<[symbol |-> Strip(cols[1]), name |-> Strip(cols[2]),
                     exchange |-> "N/A"]>> \o ParseRows(Tail(rows))
             ELSE ParseRows(Tail(rows))

\* The value returned by search_stocks for a page (the caller decides on an error).
search_stocks(page) ==
    IF page.table
    THEN LET rows == IF page.rows = <<>> THEN <<>> ELSE Tail(page.rows)
             top  == SubSeq(rows, 1, IF Len(rows) < MaxResults THEN Len(rows) ELSE MaxResults)
         IN  ParseRows(top)
    ELSE <<>>

(***************************************************************************)
(* The add branch of main                                                  *)
(***************************************************************************)
\* A variant of AddStock that puts the new label first.
AddStockFront(sel, label) ==
    IF label \notin Range(sel) THEN <<label>> \o sel ELSE sel

\* if selected_stock not in selected_stocks: append
AddStock(sel, label) ==
    IF label \notin Range(sel) THEN Append(sel, label) ELSE sel

AddMessage(sel, label) ==
    IF label \notin Range(sel) THEN "added" ELSE "already_in_list"

\* symbols = [stock.split(' - ')[0] for stock in selected_stocks]
SymbolsOf(sel) == [i \in DOMAIN sel |-> SplitFirst(sel[i])]

(***************************************************************************)
(* get_stock_data                                                          *)
(***************************************************************************)
\* One answer of the market-data service: stock.history raises, stock.info
\* raises, or both return.
FetchOk(o) == o.kind = "ok"

EmptyFetch == [data |-> <<>>, attempts |-> <<>>, errors |-> <<>>]

\* A variant of the loop that stops at the first failing symbol.
RECURSIVE get_stock_data_abort(_, _, _)
get_stock_data_abort(acc, syms, outs) ==
    IF syms = <<>> THEN acc
    ELSE IF FetchOk(Head(outs))
         THEN get_stock_data_abort(
                 [data     |-> DictSet(acc.data, Head(syms),
                                 [history |-> Head(outs).history, info |-> Head(outs).info]),
                  attempts |-> Append(acc.attempts, <<Head(syms), TRUE>>),
                  errors   |-> acc.errors],
                 Tail(syms), Tail(outs))
         ELSE [data     |-> acc.data,
               attempts |-> Append(acc.attempts, <<Head(syms), FALSE>>),
               errors   |-> Append(acc.errors, Head(syms))]

\* The loop of get_stock_data over the symbols syms, outs being the service's
\* answers: data is the dict built, attempts the symbols tried in order, errors
\* the symbols reported by st.error.  A failing symbol is reported and the loop
\* goes on with the next one.
RECURSIVE get_stock_data(_, _, _)
get_stock_data(acc, syms, outs) ==
    IF syms = <<>> THEN acc
    ELSE LET symbol == Head(syms)
             o      == Head(outs)
             next   == IF FetchOk(o)
                       THEN [data     |-> DictSet(acc.data, symbol,
                                             [history |-> o.history, info |-> o.info]),
                             attempts |-> Append(acc.attempts, <<symbol, TRUE>>),
                             errors   |-> acc.errors]
                       ELSE [data     |-> acc.data,
                             attempts |-> Append(acc.attempts, <<symbol, FALSE>>),
                             errors   |-> Append(acc.errors, symbol)]
         IN  get_stock_data(next, Tail(syms), Tail(outs))

\* {symbol: data for symbol, data in stock_data.items() if data}: an entry is
\* kept when its value is truthy, that is a dict with at least one key.
FilterValid(data) == SelectSeq(data, LAMBDA e : DOMAIN e[2] # {})

(***************************************************************************)
(* Values of the metadata record (stock.info) and their formatting         *)
(***************************************************************************)
\* A value is an int, a float, a str or None.  A number is kept as its sign and
\* its decimal digits: ip the integer part (no leading zero but for a lone 0),
\* fp the fractional part (empty for an int, at least one digit for a float).
IntVal(neg, ip) == [t |-> "int", neg |-> neg, ip |-> ip, fp |-> <<>>]

FloatVal(neg, ip, fp) == [t |-> "float", neg |-> neg, ip |-> ip, fp |-> fp]

StrVal(text) == [t |-> "str", text |-> text]

NoneVal == [t |-> "none"]

\* isinstance(value, (int, float))
IsNumber(v) == v.t \in {"int", "float"}

DigitChar(d) == <<"0", "1", "2", "3", "4", "5", "6", "7", "8", "9">>[d + 1]

DigitsText(ds) == [i \in DOMAIN ds |-> DigitChar(ds[i])]

SignText(v) == IF v.neg THEN <<"-">> ELSE <<>>

\* str(value)
PlainText(v) ==
    CASE v.t = "str"   -> v.text
      [] v.t = "none"  -> <<"None">>
      [] v.t = "int"   -> SignText(v) \o DigitsText(v.ip)
      [] v.t = "float" -> SignText(v) \o DigitsText(v.ip) \o <<".">> \o DigitsText(v.fp)

\* The digits of ds + 1.
RECURSIVE Increment(_)
Increment(ds) ==
    IF ds = <<>> THEN <<1>>
    ELSE LET n == Len(ds)
         IN  IF ds[n] < 9 THEN [ds EXCEPT ![n] = @ + 1]
             ELSE Append(Increment(SubSeq(ds, 1, n - 1)), 0)

PadRight(fp, n) == fp \o [i \in 1..(n - Len(fp)) |-> 0]

RECURSIVE StripLeadingZeros(_)
StripLeadingZeros(ds) ==
    IF Len(ds) > 1 /\ Head(ds) = 0 THEN StripLeadingZeros(Tail(ds)) ELSE ds

\* ip.fp rounded to n fractional digits, a tie going to the even digit (the
\* rounding of the format specs 'f' and '%' on a value that is exact in binary).
RoundDigits(ip, fp, n) ==
    LET f    == PadRight(fp, n)
        kept == ip \o SubSeq(f, 1, n)
        rest == SubSeq(f, n + 1, Len(f))
        more == \E i \in 2..Len(rest) : rest[i] # 0
        up   == /\ rest # <<>>
                /\ \/ rest[1] > 5
                   \/ rest[1] = 5 /\ more
                   \/ rest[1] = 5 /\ ~more /\ kept[Len(kept)] % 2 = 1
        r    == IF up THEN Increment(kept) ELSE kept
    IN  [ip |-> SubSeq(r, 1, Len(r) - n), fp |-> SubSeq(r, Len(r) - n + 1, Len(r))]

\* format(value, ".2f")
FormatFixed2(v) ==
    LET r == RoundDigits(v.ip, v.fp, 2)
    IN  SignText(v) \o DigitsText(r.ip) \o <<".">> \o DigitsText(r.fp)

\* The thousands separators of the format spec ",".
RECURSIVE GroupThousands(_)
GroupThousands(t) ==
    IF Len(t) <= 3 THEN t
    ELSE GroupThousands(SubSeq(t, 1, Len(t) - 3)) \o <<",">> \o SubSeq(t, Len(t) - 2, Len(t))

\* format(value, ",.0f")
FormatGrouped0(v) ==
    LET r == RoundDigits(v.ip, v.fp, 0)
    IN  SignText(v) \o GroupThousands(DigitsText(r.ip))

\* A variant of FormatPercent2 that does not multiply by 100.
FormatPercent2Unscaled(v) ==
    LET r == RoundDigits(v.ip, v.fp, 2)
    IN  SignText(v) \o DigitsText(r.ip) \o <<".">> \o DigitsText(r.fp) \o <<"%">>

\* format(value, ".2%"): the value times 100, two decimals, a percent sign.
FormatPercent2(v) ==
    LET f == PadRight(v.fp, 2)
        r == RoundDigits(StripLeadingZeros(v.ip \o SubSeq(f, 1, 2)),
                         SubSeq(f, 3, Len(f)), 2)
    IN  SignText(v) \o DigitsText(r.ip) \o <<".">> \o DigitsText(r.fp) \o <<"%">>

(***************************************************************************)
(* display_key_metrics                                                     *)
(***************************************************************************)
metrics == <<"currentPrice", "marketCap", "trailingPE", "forwardPE",
             "dividendYield", "52WeekChange">>

metric_names == <<"Current Price", "Market Cap", "P/E Ratio (TTM)", "Forward P/E",
                  "Dividend Yield", "52 Week Change">>

\* info.get(metric, 'N/A')
InfoGet(info, metric) ==
    IF metric \in DOMAIN info THEN info[metric] ELSE StrVal(<<"N/A">>)

\* One cell: the branch of the metric applied to the value.
FormatMetric(metric, value) ==
    IF ~IsNumber(value) THEN PlainText(value)
    ELSE CASE metric = "currentPrice" -> <<"$">> \o PlainText(value)
           [] metric = "marketCap" -> <<"$">> \o FormatGrouped0(value)
           [] metric \in {"trailingPE", "forwardPE"} -> FormatFixed2(value)
           [] metric = "dividendYield" -> FormatPercent2(value)
           [] metric = "52WeekChange" -> FormatPercent2(value)
           [] OTHER -> PlainText(value)

\* The column of one symbol.
ColumnValues(info) ==
    [i \in DOMAIN metrics |-> FormatMetric(metrics[i], InfoGet(info, metrics[i]))]

NoTable == [index |-> <<>>, columns |-> <<>>, cells |-> <<>>]

\* A variant of display_key_metrics whose rows come from the columns: a
\* DataFrame without columns has no rows either.
display_key_metrics_from_columns(data) ==
    [index   |-> IF data = <<>> THEN <<>> ELSE metric_names,
     columns |-> DictKeys(data),
     cells   |-> [i \in DOMAIN data |-> ColumnValues(data[i][2].info)]]

\* The DataFrame built from data: the metric names as index, one column per key.
display_key_metrics(data) ==
    [index   |-> metric_names,
     columns |-> DictKeys(data),
     cells   |-> [i \in DOMAIN data |-> ColumnValues(data[i][2].info)]]

(***************************************************************************)
(* create_price_chart                                                      *)
(***************************************************************************)
NoChart == [title |-> "", traces |-> <<>>]

\* One trace per key: x the dates, y the closing prices, named after the symbol.
create_price_chart(data) ==
    [title  |-> "Stock Price History",
     traces |-> [i \in DOMAIN data |->
                    [name |-> data[i][1] \o <<" Close Price">>,
                     x    |-> [j \in DOMAIN data[i][2].history |-> data[i][2].history[j].date],
                     y    |-> [j \in DOMAIN data[i][2].history |-> data[i][2].history[j].close]]]]

(***************************************************************************)
(* The answers of the two services and the user's inputs                   *)
(***************************************************************************)
SymA == <<"A">>
SymB == <<"B">>
SymC == <<"C">>

\* The <tr> rows of the lookup table: two names for A, a name holding the
\* separator, a cell with blanks around it, a row of one cell.
HeaderRow == << <<"Symbol">>, <<"Name">> >>

FullRows == { <<SymA, <<"X">>>>, <<SymA, <<"Y">>>>, <<SymB, <<"X">>>>,
              <<SymC, <<"X", Sep, "Z">>>> }

RowSamples == FullRows \cup { <<SymB>>, << <<" ", "A", " ">>, <<"X">> >> }

ElevenRows == [i \in 1..(MaxResults + 1) |-> IF i <= MaxResults THEN <<SymA, <<"X">>>>
                                                               ELSE <<SymB, <<"X">>>>]

LookupPages ==
    {Page(FALSE, <<>>), Page(TRUE, <<>>), Page(TRUE, <<HeaderRow>>),
     Page(TRUE, <<HeaderRow>> \o ElevenRows)}
    \cup {Page(TRUE, <<HeaderRow, r>>) : r \in RowSamples}
    \cup {Page(TRUE, <<HeaderRow, <<SymA, <<"Y">>>>, <<SymB, <<"X">>>>>>),
          Page(TRUE, <<HeaderRow, <<SymB>>, <<SymC, <<"X", Sep, "Z">>>>, <<SymA, <<"X">>>>>>)}

LookupResponses == {LookupError} \cup LookupPages

\* What the user may type in the search box.
Queries == {<<>>, <<" ">>, <<" ", "a", " ">>}

\* stock.history(period="1y"): the rows (date, close) of the DataFrame.
History1 == << [date |-> 1, close |-> 10], [date |-> 2, close |-> 12] >>

\* stock.info samples.
V15 == IntVal(FALSE, <<1, 5>>)
VCap == IntVal(FALSE, <<2, 5, 0, 0, 0, 0, 0, 0, 0, 0>>)
VYield == FloatVal(FALSE, <<0>>, <<0, 1, 2, 3>>)
VPrice == FloatVal(FALSE, <<1, 5, 0>>, <<2, 5>>)

InfoFull ==
    [m \in Range(metrics) |->
        CASE m = "currentPrice" -> VPrice
          [] m = "marketCap" -> VCap
          [] m \in {"trailingPE", "forwardPE"} -> V15
          [] OTHER -> VYield]

InfoEmpty == [m \in {} |-> NoneVal]

FetchOutcomes ==
    {[kind |-> "history_error"], [kind |-> "info_error"]}
    \cup {[kind |-> "ok", history |-> History1, info |-> InfoFull]}

OutcomeSeqs(n) == [1..n -> FetchOutcomes]

\* More stock.info values: a carry over every digit, ties that are exact in
\* binary, a negative value, a large integer, texts, None.
ValueSamples ==
    {V15, VCap, VYield, VPrice,
     IntVal(FALSE, <<0>>),
     IntVal(FALSE, <<1, 2, 3, 4, 5, 6, 7>>),
     IntVal(TRUE, <<3>>),
     FloatVal(FALSE, <<1, 5>>, <<1, 2, 6>>),
     FloatVal(FALSE, <<9, 9, 9>>, <<9, 9, 6>>),
     FloatVal(FALSE, <<2>>, <<5>>),
     FloatVal(FALSE, <<0>>, <<1, 2, 5>>),
     FloatVal(TRUE, <<0>>, <<0, 4, 5, 6, 7>>),
     StrVal(<<"Infinity">>),
     NoneVal}

\* stock.info records: no key, one key, every key with the same value.
ProjInfos ==
    {InfoEmpty, InfoFull}
    \cup {[k \in {m} |-> v] : m \in Range(metrics), v \in ValueSamples}
    \cup {[k \in Range(metrics) |-> v] : v \in ValueSamples}

Entry(info) == [history |-> History1, info |-> info]

\* The dicts handed to the table and the chart: empty, one key, two keys.
ProjData ==
    {<<>>}
    \cup {<< <<SymA, Entry(i)>> >> : i \in ProjInfos}
    \cup {<< <<SymB, Entry(i)>>, <<SymA, Entry(InfoFull)>> >> : i \in ProjInfos}

(***************************************************************************)
(* One run of the script (main), triggered by a user action                *)
(***************************************************************************)
Init ==
    /\ selected_stocks = <<>>
    /\ search_query = <<>>
    /\ last_action = "start"
    /\ crashed = FALSE
    /\ lookup_request = <<>>
    /\ messages = {"info_empty"}
    /\ add_button = FALSE
    /\ compare_button = FALSE
    /\ add_label = <<>>
    /\ compared = FALSE
    /\ symbols = <<>>
    /\ fetch_log = <<>>
    /\ stock_data = <<>>
    /\ valid_stock_data = <<>>
    /\ table = NoTable
    /\ chart = NoChart

\* The options of the selectbox for a run with query q answered by resp.
OptionsOf(q, resp) ==
    IF q = <<>> \/ resp.error THEN <<>>
    ELSE LET results == search_stocks(resp)
         IN  [i \in DOMAIN results |-> OptionLabel(results[i])]

NothingCompared ==
    /\ compared' = FALSE
    /\ symbols' = <<>>
    /\ fetch_log' = <<>>
    /\ stock_data' = <<>>
    /\ valid_stock_data' = <<>>
    /\ table' = NoTable
    /\ chart' = NoChart

\* The Compare branch: fetch every symbol, keep the valid entries, show them.
CompareBranch(sel, outs) ==
    LET syms  == SymbolsOf(sel)
        r     == get_stock_data(EmptyFetch, syms, outs)
        valid == FilterValid(r.data)
    IN  /\ compared' = TRUE
        /\ symbols' = syms
        /\ fetch_log' = r.attempts
        /\ stock_data' = r.data
        /\ valid_stock_data' = valid
        /\ table' = IF Len(valid) >= 1 THEN display_key_metrics(valid) ELSE NoTable
        /\ chart' = IF Len(valid) >= 1 THEN create_price_chart(valid) ELSE NoChart

\* main(): action is the widget the user touched ("query", "add", "compare"),
\* q the text of the search box, resp the answer of the lookup service if it
\* is asked, choice the index selected in the selectbox, outs the answers of
\* the market-data service if it is asked.
RunScript(action, q, resp, choice, outs) ==
    LET searched  == q # <<>>
        options   == OptionsOf(q, resp)
        adding    == options # <<>> /\ action = "add"
        sel       == IF adding THEN AddStock(selected_stocks, options[choice])
                     ELSE selected_stocks
        comparing == sel # <<>> /\ action = "compare"
    IN  /\ search_query' = q
        /\ last_action' = action
        /\ lookup_request' = IF searched THEN <<q>> ELSE <<>>
        /\ IF searched /\ resp.error
           THEN \* requests.get raised: the exception leaves main
                /\ crashed' = TRUE
                /\ messages' = {}
                /\ add_button' = FALSE
                /\ compare_button' = FALSE
                /\ add_label' = <<>>
                /\ UNCHANGED selected_stocks
                /\ NothingCompared
           ELSE /\ crashed' = FALSE
                /\ add_button' = (options # <<>>)
                /\ add_label' = IF adding THEN <<options[choice]>> ELSE <<>>
                /\ selected_stocks' = sel
                /\ compare_button' = (sel # <<>>)
                /\ IF comparing THEN CompareBranch(sel, outs) ELSE NothingCompared
                /\ messages' =
                      (IF adding THEN {AddMessage(selected_stocks, options[choice])} ELSE {})
                      \cup (IF searched /\ options = <<>> THEN {"no_results"} ELSE {})
                      \cup (IF sel = <<>> THEN {"info_empty"} ELSE {})
                      \cup (IF comparing /\ valid_stock_data' = <<>>
                            THEN {"unable_to_fetch"} ELSE {})

\* A run that does not add reads the lookup answer only to know whether it is
\* an error, empty or not: one answer of each kind is enough for it.
PlainResponses ==
    {LookupError, Page(FALSE, <<>>), Page(TRUE, <<HeaderRow, <<SymA, <<"X">>>>>>)}

\* The user types a query (or selects another option): the script runs again.
EnterQuery(q) ==
    \E resp \in PlainResponses : RunScript("query", q, resp, 1, <<>>)

\* The user clicks "Add Stock", rendered by the previous run.
ClickAdd ==
    /\ add_button
    /\ Len(selected_stocks) < MaxSel
    /\ \E resp \in LookupResponses :
          \E choice \in (IF OptionsOf(search_query, resp) = <<>> THEN {1}
                         ELSE DOMAIN OptionsOf(search_query, resp)) :
             RunScript("add", search_query, resp, choice, <<>>)

\* The user clicks "Compare Selected Stocks", rendered by the previous run.
ClickCompare ==
    /\ compare_button
    /\ \E resp \in PlainResponses : \E outs \in OutcomeSeqs(Len(selected_stocks)) :
          RunScript("compare", search_query, resp, 1, outs)

Next ==
    \/ \E q \in Queries : EnterQuery(q)
    \/ ClickAdd
    \/ ClickCompare

Spec == Init /\ [][Next]_vars

(***************************************************************************)
(* Properties of the selection set                                         *)
(***************************************************************************)
IsPrefix(s, t) == Len(s) <= Len(t) /\ SubSeq(t, 1, Len(s)) = s

\* The run that led to the next state executed the add branch.
AddRan == last_action' = "add" /\ add_label' # <<>>

\* The symbol handed to the add branch by that run.
AddedSymbol == SplitFirst(add_label'[1])

\* C1: no symbol appears twice in the selection set, whatever the searches,
\* adds and compares made, also when a ticker is offered under two names.
C1_NoDuplicateSymbol ==
    \A i, j \in DOMAIN selected_stocks :
        i # j => SplitFirst(selected_stocks[i]) # SplitFirst(selected_stocks[j])

\* C2: an add of a symbol absent from the selection grows the list by one
\* element and reports success; an add of a symbol already in the selection
\* leaves the list and its order unchanged and reports "already in the list".
C2_IdempotentAdd ==
    [][AddRan =>
         IF AddedSymbol \in Range(SymbolsOf(selected_stocks))
         THEN /\ selected_stocks' = selected_stocks
              /\ "already_in_list" \in messages'
              /\ "added" \notin messages'
         ELSE /\ Len(selected_stocks') = Len(selected_stocks) + 1
              /\ "added" \in messages'
              /\ "already_in_list" \notin messages']_vars

\* C3: the symbols of the selection are the distinct symbols added, in the
\* order of their first add: an add of a symbol seen before changes nothing of
\* that sequence, an add of a new symbol puts it last.
C3_OrderPreserved ==
    [][AddRan =>
         SymbolsOf(selected_stocks') =
            IF AddedSymbol \in Range(SymbolsOf(selected_stocks))
            THEN SymbolsOf(selected_stocks)
            ELSE Append(SymbolsOf(selected_stocks), AddedSymbol)]_vars

\* C10: the selection starts empty, only a run that adds changes it, and the
\* list before any step is a prefix of the list after it (a search or a
\* compare, failing or not, leaves it as it is).
C10_SelectionFrame ==
    /\ selected_stocks = <<>>
    /\ [][/\ IsPrefix(selected_stocks, selected_stocks')
          /\ (selected_stocks' # selected_stocks => AddRan)]_vars

\* A compare over two or more selected stocks, run after a search, with a
\* failing fetch.
C10_Witness ==
    /\ compared
    /\ Len(selected_stocks) >= 2
    /\ lookup_request # <<>>
    /\ \E i \in DOMAIN fetch_log : ~fetch_log[i][2]

(***************************************************************************)
(* Properties of the aggregation                                           *)
(***************************************************************************)
\* The elements of s, each kept at its first place only.
RECURSIVE Distinct(_)
Distinct(s) ==
    IF s = <<>> THEN <<>>
    ELSE LET d == Distinct(SubSeq(s, 1, Len(s) - 1))
         IN  IF s[Len(s)] \in Range(d) THEN d ELSE Append(d, s[Len(s)])

\* The symbols of the last Compare with a fetch that did not fail, in order.
FetchedSymbols ==
    LET ok == SelectSeq(fetch_log, LAMBDA a : a[2])
    IN  Distinct([i \in DOMAIN ok |-> ok[i][1]])

\* C4: a Compare attempts every requested symbol in order, whatever fetches
\* failed before it; the dict returned holds the symbols with a fetch that
\* did not fail, and the table columns and the chart series are those symbols
\* and no other (none is shown when there is none).
C4_PartialFailureIsolation ==
    compared =>
        /\ symbols = SymbolsOf(selected_stocks)
        /\ [i \in DOMAIN fetch_log |-> fetch_log[i][1]] = symbols
        /\ DictKeys(stock_data) = FetchedSymbols
        /\ table.columns = FetchedSymbols
        /\ [i \in DOMAIN chart.traces |-> chart.traces[i].name]
              = [i \in DOMAIN FetchedSymbols |-> FetchedSymbols[i] \o <<" Close Price">>]

\* Three different symbols requested, the second one failing, the other two shown.
C4_Witness ==
    /\ compared
    /\ Len(symbols) = 3
    /\ Cardinality(Range(symbols)) = 3
    /\ [i \in DOMAIN fetch_log |-> fetch_log[i][2]] = <<TRUE, FALSE, TRUE>>
    /\ table.columns = <<symbols[1], symbols[3]>>

\* C5: the mapping returned by the fetch has exactly the requested symbols as
\* its keys, a failing symbol included.
C5_ResultCoverage ==
    compared => Range(DictKeys(stock_data)) = Range(symbols)

(***************************************************************************)
(* Properties of the search                                                *)
(***************************************************************************)
\* C6: a query that is empty once trimmed is never sent to the lookup service
\* and yields no candidate.
C6_BlankQueryNoLookup ==
    Strip(search_query) = <<>> => lookup_request = <<>> /\ ~add_button

\* C7: no failure of the lookup service or of the market-data service ends a
\* run of the script with an uncaught exception.
C7_NeverCrashes == ~crashed

(***************************************************************************)
(* The table and the chart as functions of the data handed to them         *)
(***************************************************************************)
InitProj ==
    /\ selected_stocks = <<>>
    /\ search_query = <<>>
    /\ last_action = "start"
    /\ crashed = FALSE
    /\ lookup_request = <<>>
    /\ messages = {}
    /\ add_button = FALSE
    /\ compare_button = FALSE
    /\ add_label = <<>>
    /\ compared = FALSE
    /\ symbols = <<>>
    /\ fetch_log = <<>>
    /\ stock_data = <<>>
    /\ valid_stock_data \in ProjData
    /\ table = NoTable
    /\ chart = NoChart

BuildTable ==
    /\ table' = display_key_metrics(valid_stock_data)
    /\ UNCHANGED <<selected_stocks, search_query, last_action, crashed, lookup_request,
                   messages, add_button, compare_button, add_label, compared, symbols,
                   fetch_log, stock_data, valid_stock_data, chart>>

BuildChart ==
    /\ chart' = create_price_chart(valid_stock_data)
    /\ UNCHANGED <<selected_stocks, search_query, last_action, crashed, lookup_request,
                   messages, add_button, compare_button, add_label, compared, symbols,
                   fetch_log, stock_data, valid_stock_data, table>>

NextProj == BuildTable \/ BuildChart

SpecProj == InitProj /\ [][NextProj]_vars

TableBuilt == table # NoTable

ChartBuilt == chart # NoChart

\* The metric set enumerated by the data model of the specification.
EnumeratedMetrics ==
    <<"currentPrice", "marketCap", "trailingPE", "forwardPE", "dividendYield",
      "fiftyTwoWeekHigh", "fiftyTwoWeekLow", "52WeekChange">>

DigitChars == {DigitChar(d) : d \in 0..9}

DigitOf(c) == CHOOSE d \in 0..9 : DigitChar(d) = c

\* The number written by a text of digits (other characters skipped).
RECURSIVE TextToNat(_)
TextToNat(t) ==
    IF t = <<>> THEN 0
    ELSE IF t[Len(t)] \in DigitChars
         THEN 10 * TextToNat(SubSeq(t, 1, Len(t) - 1)) + DigitOf(t[Len(t)])
         ELSE TextToNat(SubSeq(t, 1, Len(t) - 1))

Abs(n) == IF n < 0 THEN -n ELSE n

WithoutSign(t) == IF t # <<>> /\ t[1] = "-" THEN Tail(t) ELSE t

\* A number small enough for its value times 10^6 to be computed.
Small(v) == Len(v.ip) <= 3 /\ Len(v.fp) <= 6

\* The magnitude of a small number, times 10^6.
Micro(v) == TextToNat(DigitsText(v.ip \o PadRight(v.fp, 6)))

\* Digits, a point, two digits.
TwoDecimals(t) ==
    /\ Len(t) >= 4
    /\ \A i \in DOMAIN t : IF i = Len(t) - 2 THEN t[i] = "." ELSE t[i] \in DigitChars

\* Digits in groups of three from the right, a comma between two groups.
Grouped(t) ==
    /\ t # <<>>
    /\ t[1] # ","
    /\ \A i \in DOMAIN t :
          IF (Len(t) - i + 1) % 4 = 0 THEN t[i] = "," ELSE t[i] \in DigitChars

SignKept(v, t) == (t # <<>> /\ t[1] = "-") <=> v.neg

\* The value shown for metric m of the record info (the default if it is missing).
Shown(info, m) == IF m \in DOMAIN info THEN info[m] ELSE StrVal(<<"N/A">>)

ZeroTexts == {<<"0">>, <<"$", "0">>, <<"0", ".", "0", "0">>,
              <<"0", ".", "0", "0", "%">>, <<"$", "0", ".", "0">>}

\* The cell out is the one the rules give for metric m with value v.
CellAsSpecified(m, v, out) ==
    IF v.t \notin {"int", "float"}
    THEN /\ out = (IF v.t = "str" THEN v.text ELSE <<"None">>)
         /\ out \notin ZeroTexts
    ELSE CASE m = "currentPrice" ->
                /\ out[1] = "$"
                /\ SignKept(v, Tail(out))
                /\ WithoutSign(Tail(out)) =
                      DigitsText(v.ip) \o (IF v.t = "float"
                                           THEN <<".">> \o DigitsText(v.fp) ELSE <<>>)
           [] m = "marketCap" ->
                /\ out[1] = "$"
                /\ SignKept(v, Tail(out))
                /\ Grouped(WithoutSign(Tail(out)))
                /\ v.t = "int" =>
                      SelectSeq(WithoutSign(Tail(out)), LAMBDA c : c # ",") = DigitsText(v.ip)
                /\ Small(v) =>
                      2 * Abs(TextToNat(out) * 1000000 - Micro(v)) <= 1000000
           [] m \in {"trailingPE", "forwardPE"} ->
                /\ SignKept(v, out)
                /\ TwoDecimals(WithoutSign(out))
                /\ v.t = "int" =>
                      WithoutSign(out) = DigitsText(v.ip) \o <<".", "0", "0">>
                /\ Small(v) =>
                      2 * Abs(TextToNat(out) * 10000 - Micro(v)) <= 10000
           [] m \in {"dividendYield", "52WeekChange"} ->
                /\ SignKept(v, out)
                /\ out[Len(out)] = "%"
                /\ TwoDecimals(WithoutSign(SubSeq(out, 1, Len(out) - 1)))
                /\ v.t = "int" =>
                      WithoutSign(out) =
                         DigitsText(IF v.ip = <<0>> THEN v.ip ELSE v.ip \o <<0, 0>>)
                            \o <<".", "0", "0", "%">>
                /\ Small(v) =>
                      2 * Abs(TextToNat(out) * 100 - Micro(v)) <= 100

\* C9: every cell of a table is the formatted value of its metric: a "$" and
\* the value for currentPrice; a "$" and the integer in groups of three for
\* marketCap; two decimals for trailingPE and forwardPE; the value times 100
\* with two decimals and a "%" for dividendYield and 52WeekChange; the text of
\* a value that is not a number, "N/A" for a missing one, never a zero.  The
\* numbers written are the values rounded to the digits shown.
C9_FormattingExact ==
    TableBuilt =>
        /\ \A i \in DOMAIN table.cells : \A k \in DOMAIN metrics :
              CellAsSpecified(metrics[k],
                              Shown(valid_stock_data[i][2].info, metrics[k]),
                              table.cells[i][k])
        /\ \A i \in DOMAIN table.cells :
              LET info == valid_stock_data[i][2].info
                  cell(k) == table.cells[i][k]
              IN  /\ info = InfoFull =>
                        /\ cell(1) = <<"$", "1", "5", "0", ".", "2", "5">>
                        /\ cell(2) = <<"$", "2", ",", "5", "0", "0", ",", "0", "0", "0",
                                        ",", "0", "0", "0">>
                        /\ cell(3) = <<"1", "5", ".", "0", "0">>
                        /\ cell(4) = <<"1", "5", ".", "0", "0">>
                        /\ cell(5) = <<"1", ".", "2", "3", "%">>
                        /\ cell(6) = <<"1", ".", "2", "3", "%">>
                  /\ info = InfoEmpty => \A k \in DOMAIN metrics : cell(k) = <<"N/A">>

\* A table of two columns: one record with no metric, one with the values
\* 150.25, 2500000000, 15 and 0.0123.
C9_Witness ==
    /\ TableBuilt
    /\ Len(valid_stock_data) = 2
    /\ valid_stock_data[1][2].info = InfoEmpty
    /\ valid_stock_data[2][2].info = InfoFull
    /\ table.cells[1][5] = <<"N/A">>
    /\ table.cells[2][5] = <<"1", ".", "2", "3", "%">>

====
